---- MODULE Spec2Model ----
(***************************************************************************)
(* form-showcase: the four form components (contact, multi-step wizard,    *)
(* dynamic form builder, file upload), the useDynamicForm and             *)
(* useFormSubmission hooks, and the four submission endpoints, as state    *)
(* machines.                                                               *)
(*                                                                         *)
(* Client side: one form instance per behaviour (kind is fixed by Init).   *)
(* Every handler is one action up to its first await; the code after an    *)
(* await is a further action that runs when the awaited promise settles.   *)
(* A re-render is taken to happen before the next user event, so a control *)
(* guard (disabled=..., a conditionally rendered button) reads the current *)
(* state.  submitError stands for the error message wherever it is shown:  *)
(* the live-region copy of it (statusAnnouncement) is not a variable.      *)
(*                                                                         *)
(* Server side: the endpoints under any requests, one action per await of  *)
(* a POST function.                                                        *)
(***************************************************************************)
EXTENDS Integers, Sequences, FiniteSets, Bags, TLC

VARIABLES
  kind,              \* which component this instance is
  fields,            \* DynamicForm / useDynamicForm: useState<DynamicFieldValues[]>
  formName,          \* useState('')
  fieldBeingEdited,  \* useState<DynamicFieldValues | null>: <<>> is null, <<f>> is f
  formId,            \* react-hook-form value 'id' of the add/edit field form
  formType,          \* react-hook-form value 'type' of the add/edit field form
  formOptions,       \* react-hook-form value 'options' of the add/edit field form
  isSubmitting,      \* useState(false)
  submitSuccess,     \* useState(false)
  submitError,       \* useState<string | null>: "null" is null
  validating,        \* handleSubmit(onSubmit) calls awaiting the resolver: bag of form values
  net,               \* requests in flight: bag of [stage, accepts]
  rows,              \* number of rows the endpoint has stored for this instance
  timers,            \* pending setTimeout(() => setSubmitSuccess(false), 5000)
  submits,           \* number of submissions started so far (bounded)
  values,            \* fixed forms: react-hook-form values
  step,              \* wizard: useState(0)
  pendingNext,       \* wizard: handleNext calls awaiting trigger(): bag of [step, isValid]
  selectedFile,      \* file upload: useState<File | null>
  uploadProgress,    \* file upload: useState(0)
  reqs,              \* server: the requests received, each with its position in POST
  contact_submissions,    \* server: rows of the table, in insertion order
  multistep_submissions,
  dynamic_submissions,
  file_submissions,
  uploads,           \* server: public/uploads, as a set of [filename, content]
  clock              \* server: Date.now()

builderVars == <<fields, formName, fieldBeingEdited, formId, formType, formOptions>>
submitVars  == <<isSubmitting, submitSuccess, submitError, validating, net, rows, timers, submits>>
wizardVars  == <<step, pendingNext>>
fileVars    == <<selectedFile, uploadProgress>>
clientVars  == <<kind, builderVars, submitVars, values, wizardVars, fileVars>>
tables      == <<contact_submissions, multistep_submissions, dynamic_submissions,
                 file_submissions>>
serverVars  == <<reqs, tables, uploads, clock>>

(***************************************************************************)
(* Bounds of the model.                                                    *)
(***************************************************************************)
MaxFields  == 2   \* longest field list the builder is driven to
MaxSubmits == 2   \* submissions started per behaviour
MaxPending == 2   \* handleNext calls awaiting trigger() at one time
MaxRequests == 2  \* requests the endpoints receive per behaviour
MaxClock   == 1   \* Date.now() runs over 0..MaxClock
MaxOptions == 2   \* longest options list the edit form is driven to

(***************************************************************************)
(* Field definitions (form-schemas.ts, dynamicFieldSchema).                *)
(***************************************************************************)
FieldTypes == {"text", "email", "number", "checkbox", "radio", "select"}

\* options?: absent, or a list of {label, value}
NoOptions    == [present |-> FALSE, list |-> <<>>]
EmptyOptions == [present |-> TRUE, list |-> <<>>]

\* generateId(): Math.random().toString(36).substring(2, 9).  Any short
\* base-36 string, the same one twice included.
GenIds == {"k1", "k2"}

\* What the user may have typed into the add/edit field form when it is
\* submitted (label is required by register('label', {required})).
FieldInputs == { [label |-> "Name", required |-> TRUE] }

\* The entries of the Field Type select the user is taken to pick where the
\* whole component is run; the edit form on its own is run over all six.
TypeChoices == {"text", "select"}

FormNames == {"", "Survey"}

\* Fields a caller of the hook may pass to addField / editField.
HookFields ==
  { [id |-> i, label |-> l, type |-> t, required |-> FALSE, options |-> o] :
      i \in {""} \cup GenIds, l \in {"Name"}, t \in {"text", "select"},
      o \in {NoOptions, EmptyOptions} }

RECURSIVE SeqMap(_, _, _)
\* prev.map(field => field.id === id ? newField : field)
SeqMap(s, id, newField) ==
  IF s = <<>> THEN <<>>
  ELSE <<IF Head(s).id = id THEN newField ELSE Head(s)>> \o SeqMap(Tail(s), id, newField)

RECURSIVE SeqFilter(_, _)
\* prev.filter(field => field.id !== id)
SeqFilter(s, id) ==
  IF s = <<>> THEN <<>>
  ELSE (IF Head(s).id # id THEN <<Head(s)>> ELSE <<>>) \o SeqFilter(Tail(s), id)

\* ['select', 'radio', 'checkbox'].includes(type)
requiresOptions(type) == type \in {"select", "radio", "checkbox"}

\* The map callback of generateFormData left out: every field as it is
NormalizeField_Identity(f) == f

\* The map callback of generateFormData taking an empty options list away
\* again
NormalizeField_Flip(f) ==
  IF requiresOptions(f.type) /\ ~f.options.present
  THEN [f EXCEPT !.options = EmptyOptions]
  ELSE IF requiresOptions(f.type) /\ f.options = EmptyOptions
       THEN [f EXCEPT !.options = NoOptions]
       ELSE f

\* The map callback of generateFormData
NormalizeField(f) ==
  IF requiresOptions(f.type) /\ ~f.options.present
  THEN [f EXCEPT !.options = EmptyOptions]
  ELSE f

\* generateFormData() over a form name and a field list
FormData(name, fs) ==
  [formName |-> name,
   fields   |-> [i \in 1..Len(fs) |-> NormalizeField(fs[i])]]

\* generateFormData(): the snapshot sent to the endpoint
generateFormData == FormData(formName, fields)

\* reset({id: '', label: '', type: 'text', required: false, options: []})
ResetFieldForm ==
  /\ formId' = ""
  /\ formType' = "text"
  /\ formOptions' = EmptyOptions

\* data.id || generateId()
NewFieldId(dataId, gen) == IF dataId # "" THEN dataId ELSE gen

\* const newField = {id: data.id || generateId(), label: data.label, type:
\* data.type, required: data.required, options: data.options}
NewField(input, gen) ==
  [id       |-> NewFieldId(formId, gen),
   label    |-> input.label,
   type     |-> formType,
   required |-> input.required,
   options  |-> formOptions]

\* const newField = {...field, id: field.id || generateId()} of the hook
HookNewField(field, gen) == [field EXCEPT !.id = NewFieldId(field.id, gen)]

\* The two branches of addField, shared by the component and the hook:
\* the field list and the edit pointer it leaves
AddOrUpdateResult(prev, editing, newField) ==
  IF editing # <<>>
  THEN [fields |-> SeqMap(prev, editing[1].id, newField), fieldBeingEdited |-> <<>>]
  ELSE [fields |-> Append(prev, newField), fieldBeingEdited |-> editing]

AddOrUpdate(newField) ==
  /\ fieldBeingEdited = <<>> => Len(fields) < MaxFields
  /\ fields' = AddOrUpdateResult(fields, fieldBeingEdited, newField).fields
  /\ fieldBeingEdited' = AddOrUpdateResult(fields, fieldBeingEdited, newField).fieldBeingEdited

(***************************************************************************)
(* Schemas (form-schemas.ts).  A string is modelled by its length, an      *)
(* email by one of three representatives, an optional string by -1 when    *)
(* absent.  Each schema returns the set of field names zod reports, which  *)
(* is the key set of error.flatten().fieldErrors.                          *)
(***************************************************************************)
Absent == -1

\* z.string().email(): "" is the empty string, "x" a non-empty string that is
\* no address, "a@b.c" an address
Emails == {"", "x", "a@b.c"}
IsEmail(e) == e \in {"a@b.c", "long@b.c"}

\* z.string().min(lo).max(hi) with the upper bound left out of the range
StrBetween_Exclusive(n, lo, hi) == n # Absent /\ lo <= n /\ n < hi

\* z.string().min(lo).max(hi) on a present string of length n
StrBetween(n, lo, hi) == n # Absent /\ lo <= n /\ n <= hi
\* z.string().min(lo)
StrAtLeast(n, lo) == n # Absent /\ lo <= n

contactFormSchema(p) ==
  (IF StrBetween(p.name, 1, 100) THEN {} ELSE {"name"})
  \cup (IF IsEmail(p.email) THEN {} ELSE {"email"})
  \cup (IF StrBetween(p.subject, 1, 200) THEN {} ELSE {"subject"})
  \cup (IF StrBetween(p.message, 10, 1000) THEN {} ELSE {"message"})

personalInfoSchema(p) ==
  (IF StrAtLeast(p.firstName, 1) THEN {} ELSE {"firstName"})
  \cup (IF StrAtLeast(p.lastName, 1) THEN {} ELSE {"lastName"})
  \cup (IF IsEmail(p.email) THEN {} ELSE {"email"})

addressInfoSchema(p) ==
  (IF StrAtLeast(p.addressLine1, 1) THEN {} ELSE {"addressLine1"})
  \cup (IF StrAtLeast(p.city, 1) THEN {} ELSE {"city"})
  \cup (IF StrAtLeast(p.state, 1) THEN {} ELSE {"state"})
  \cup (IF StrAtLeast(p.postalCode, 1) THEN {} ELSE {"postalCode"})
  \cup (IF StrAtLeast(p.country, 1) THEN {} ELSE {"country"})

\* phone is optional; preferences must be an object (its flags default to false)
additionalInfoSchema(p) ==
  IF p.preferences THEN {} ELSE {"preferences"}

multiStepFormSchema(p) ==
  personalInfoSchema(p) \cup addressInfoSchema(p) \cup additionalInfoSchema(p)

\* dynamicFormSchema: formName a string, fields an array of dynamicFieldSchema
\* A key that is missing from a JSON object is missing from the record.
dynamicFieldSchema(f) ==
  /\ {"id", "label", "type"} \subseteq DOMAIN f
  /\ f.type \in FieldTypes
dynamicFormSchema(p) ==
  (IF "formName" \in DOMAIN p THEN {} ELSE {"formName"})
  \cup (IF /\ "fields" \in DOMAIN p
           /\ \A i \in 1..Len(p.fields) : dynamicFieldSchema(p.fields[i])
        THEN {} ELSE {"fields"})

AllowedTypes == {"image/jpeg", "image/png", "application/pdf"}
MaxFileSize  == 5242880

\* The two .refine() of fileUploadSchema.file: the messages of those that fail
FileRefinements(file) ==
  (IF file.size <= MaxFileSize THEN {} ELSE {"File size must be less than 5MB"})
  \cup (IF file.type \in AllowedTypes THEN {} ELSE {"File must be JPEG, PNG, or PDF"})

\* fileUploadSchema (client side): file is null ("null") or [name, type, size]
fileUploadSchema(p) ==
  (IF StrAtLeast(p.name, 1) THEN {} ELSE {"name"})
  \cup (IF IsEmail(p.email) THEN {} ELSE {"email"})
  \cup (IF p.file # <<>> /\ FileRefinements(p.file[1]) = {}
        THEN {} ELSE {"file"})

\* steps[i].fields of the wizard
StepFields(i) ==
  CASE i = 0 -> {"firstName", "lastName", "email"}
    [] i = 1 -> {"addressLine1", "addressLine2", "city", "state", "postalCode", "country"}
    [] i = 2 -> {"phone", "preferences"}
    [] OTHER -> {}

\* trigger() that reports whether the whole form has no error
trigger_WholeForm(names, vals) == multiStepFormSchema(vals) = {}

\* trigger(names): run the resolver on the whole form, then report whether
\* none of the named fields has an error
trigger(names, vals) == multiStepFormSchema(vals) \cap names = {}

(***************************************************************************)
(* What the user can enter.                                                *)
(***************************************************************************)
ContactDefault == [name |-> 0, email |-> "", subject |-> 0, message |-> 0]
ContactInputs ==
  { [name |-> 4, email |-> "a@b.c", subject |-> 5, message |-> 10],
    [name |-> 4, email |-> "a@b.c", subject |-> 5, message |-> 9] }

WizardDefault ==
  [firstName |-> 0, lastName |-> 0, email |-> "",
   addressLine1 |-> 0, addressLine2 |-> 0, city |-> 0, state |-> 0,
   postalCode |-> 0, country |-> 0, phone |-> 0, preferences |-> TRUE]

\* The edits the wizard's current step offers: fill it in, or blank it again.
WizardEdit(vals, s, fill) ==
  LET n == IF fill THEN 3 ELSE 0 IN
  CASE s = 0 -> [vals EXCEPT !.firstName = n, !.lastName = n, !.email = IF fill THEN "a@b.c" ELSE ""]
    [] s = 1 -> [vals EXCEPT !.addressLine1 = n, !.city = n, !.state = n,
                             !.postalCode = n, !.country = n]
    [] s = 2 -> [vals EXCEPT !.phone = IF fill THEN 10 ELSE 0]
    [] OTHER -> vals

\* A file: its name as the characters before the extension and the extension
\* (path.extname), its MIME type and its size in bytes.
Png2M  == [stem |-> <<"a">>, ext |-> ".png", type |-> "image/png",  size |-> 2097152]
Txt1M  == [stem |-> <<"a">>, ext |-> ".txt", type |-> "text/plain", size |-> 1048576]
FileInputs == {Png2M, Txt1M}

FileDefault == [name |-> 0, email |-> "", file |-> <<>>]

(***************************************************************************)
(* The form builder: DynamicForm component.                                *)
(***************************************************************************)
\* <form onSubmit={handleSubmit(addField)}>: the Add Field / Update Field button
addField ==
  /\ kind = "dynamic"
  /\ \E input \in FieldInputs, gen \in GenIds : AddOrUpdate(NewField(input, gen))
  /\ ResetFieldForm
  /\ UNCHANGED <<kind, formName, submitVars, values, wizardVars, fileVars>>
  /\ UNCHANGED serverVars

\* The Edit button of row i
editField(i) ==
  /\ kind = "dynamic"
  /\ i \in 1..Len(fields)
  /\ fieldBeingEdited' = <<fields[i]>>
  /\ formId' = fields[i].id
  /\ formType' = fields[i].type
  /\ formOptions' = IF fields[i].options.present THEN fields[i].options ELSE formOptions
  /\ UNCHANGED <<kind, fields, formName, submitVars, values, wizardVars, fileVars>>
  /\ UNCHANGED serverVars

\* The Delete button of row i
removeField(i) ==
  /\ kind = "dynamic"
  /\ i \in 1..Len(fields)
  /\ fields' = SeqFilter(fields, fields[i].id)
  /\ IF fieldBeingEdited # <<>> /\ fieldBeingEdited[1].id = fields[i].id
     THEN fieldBeingEdited' = <<>> /\ ResetFieldForm
     ELSE UNCHANGED <<fieldBeingEdited, formId, formType, formOptions>>
  /\ UNCHANGED <<kind, formName, submitVars, values, wizardVars, fileVars>>
  /\ UNCHANGED serverVars

\* The Cancel button of the add/edit field form
cancelEdit ==
  /\ kind = "dynamic"
  /\ fieldBeingEdited' = <<>>
  /\ ResetFieldForm
  /\ UNCHANGED <<kind, fields, formName, submitVars, values, wizardVars, fileVars>>
  /\ UNCHANGED serverVars

\* The Field Type select of the add/edit field form (register('type'))
setFieldType(type) ==
  /\ kind = "dynamic"
  /\ formType' = type
  /\ formType' # formType
  /\ UNCHANGED <<kind, fields, formName, fieldBeingEdited, formId, formOptions,
                 submitVars, values, wizardVars, fileVars>>
  /\ UNCHANGED serverVars

\* What the user may type into an option's text input
OptionTexts == {<<>>, <<"R", " ", " ", "g">>}

ToLowerCaseChar(c) ==
  CASE c = "R" -> "r"
    [] c = "G" -> "g"
    [] OTHER   -> c
\* value.toLowerCase()
toLowerCase(str) == [i \in 1..Len(str) |-> ToLowerCaseChar(str[i])]

RECURSIVE ReplaceWhitespace(_, _)
\* str.replace(/\s+/g, '_'): every maximal run of whitespace becomes one '_'
\* (inRun: the character before s was whitespace)
ReplaceWhitespace(s, inRun) ==
  IF s = <<>> THEN <<>>
  ELSE IF Head(s) = " "
    THEN (IF inRun THEN <<>> ELSE <<"_">>) \o ReplaceWhitespace(Tail(s), TRUE)
  ELSE <<Head(s)>> \o ReplaceWhitespace(Tail(s), FALSE)

\* value.toLowerCase().replace(/\s+/g, '_')
derive(label) == ReplaceWhitespace(toLowerCase(label), FALSE)

\* The options editor is rendered: ['select', 'radio'].includes(fieldType)
OptionsEditorShown == kind = "dynamic" /\ formType \in {"select", "radio"}

\* The Add Option button
addOption ==
  /\ OptionsEditorShown
  /\ Len(formOptions.list) < MaxOptions
  /\ formOptions' = [present |-> TRUE,
                     list |-> Append(formOptions.list, [label |-> <<>>, value |-> <<>>])]
  /\ UNCHANGED <<kind, fields, formName, fieldBeingEdited, formId, formType,
                 submitVars, values, wizardVars, fileVars>>
  /\ UNCHANGED serverVars

\* handleOptionChange writing through to the options of the listed field
handleOptionChange_Aliased(index, value) ==
  /\ OptionsEditorShown
  /\ index \in 1..Len(formOptions.list)
  /\ formOptions' = [present |-> TRUE,
                     list |-> [formOptions.list EXCEPT
                                 ![index] = [label |-> value, value |-> derive(value)]]]
  /\ formOptions' # formOptions
  /\ fields' = [k \in 1..Len(fields) |->
                  IF fieldBeingEdited # <<>> /\ fields[k] = fieldBeingEdited[1]
                       /\ fields[k].options = formOptions
                  THEN [fields[k] EXCEPT !.options = formOptions']
                  ELSE fields[k]]
  /\ UNCHANGED <<kind, formName, fieldBeingEdited, formId, formType,
                 submitVars, values, wizardVars, fileVars>>
  /\ UNCHANGED serverVars

\* handleOptionChange that sets the label and leaves the value as it was
handleOptionChange_LabelOnly(index, value) ==
  /\ OptionsEditorShown
  /\ index \in 1..Len(formOptions.list)
  /\ formOptions' = [present |-> TRUE,
                     list |-> [formOptions.list EXCEPT ![index].label = value]]
  /\ formOptions' # formOptions
  /\ UNCHANGED <<kind, fields, formName, fieldBeingEdited, formId, formType,
                 submitVars, values, wizardVars, fileVars>>
  /\ UNCHANGED serverVars

\* onChange of the text input of option index
handleOptionChange(index, value) ==
  /\ OptionsEditorShown
  /\ index \in 1..Len(formOptions.list)
  /\ formOptions' = [present |-> TRUE,
                     list |-> [formOptions.list EXCEPT
                                 ![index] = [label |-> value, value |-> derive(value)]]]
  /\ formOptions' # formOptions
  /\ UNCHANGED <<kind, fields, formName, fieldBeingEdited, formId, formType,
                 submitVars, values, wizardVars, fileVars>>
  /\ UNCHANGED serverVars

\* currentOptions.filter((_, i) => i !== index)
WithoutIndex(list, index) ==
  [k \in 1..(Len(list) - 1) |-> IF k < index THEN list[k] ELSE list[k + 1]]

\* The Remove button of option index
removeOption(index) ==
  /\ OptionsEditorShown
  /\ index \in 1..Len(formOptions.list)
  /\ formOptions' = [present |-> TRUE, list |-> WithoutIndex(formOptions.list, index)]
  /\ UNCHANGED <<kind, fields, formName, fieldBeingEdited, formId, formType,
                 submitVars, values, wizardVars, fileVars>>
  /\ UNCHANGED serverVars

\* onChange of the Form Name input (component), setFormName (hook)
setFormName(name) ==
  /\ kind \in {"dynamic", "hook"}
  /\ formName' = name
  /\ UNCHANGED <<kind, fields, fieldBeingEdited, formId, formType, formOptions,
                 submitVars, values, wizardVars, fileVars>>
  /\ UNCHANGED serverVars

(***************************************************************************)
(* The form builder: useDynamicForm hook, driven by its caller.            *)
(***************************************************************************)
hookAddField(field) ==
  /\ kind = "hook"
  /\ \E gen \in GenIds :
       AddOrUpdate(HookNewField(field, gen))
  /\ UNCHANGED <<kind, formName, formId, formType, formOptions, submitVars, values, wizardVars, fileVars>>
  /\ UNCHANGED serverVars

hookEditField(field) ==
  /\ kind = "hook"
  /\ fieldBeingEdited' = <<field>>
  /\ UNCHANGED <<kind, fields, formName, formId, formType, formOptions,
                 submitVars, values, wizardVars, fileVars>>
  /\ UNCHANGED serverVars

hookRemoveField(id) ==
  /\ kind = "hook"
  /\ fields' = SeqFilter(fields, id)
  /\ fieldBeingEdited' =
       IF fieldBeingEdited # <<>> /\ fieldBeingEdited[1].id = id THEN <<>> ELSE fieldBeingEdited
  /\ UNCHANGED <<kind, formName, formId, formType, formOptions, submitVars, values, wizardVars, fileVars>>
  /\ UNCHANGED serverVars

clearFieldBeingEdited ==
  /\ kind = "hook"
  /\ fieldBeingEdited' = <<>>
  /\ UNCHANGED <<kind, fields, formName, formId, formType, formOptions,
                 submitVars, values, wizardVars, fileVars>>
  /\ UNCHANGED serverVars

(***************************************************************************)
(* Submission, client side.                                                *)
(***************************************************************************)
FixedKinds == {"contact", "multistep", "file"}
Kinds      == FixedKinds \cup {"dynamic", "hook", "submission"}

One(e) == SetToBag({e})

\* zodResolver(<schema>) of each fixed form
ClientSchema(k, data) ==
  CASE k = "contact"   -> contactFormSchema(data)
    [] k = "multistep" -> multiStepFormSchema(data)
    [] k = "file"      -> fileUploadSchema(data)
    [] OTHER           -> {}

\* Whether the endpoint's own validation lets the payload through
EndpointAccepts(k, p) ==
  CASE k = "contact"   -> contactFormSchema(p) = {}
    [] k = "multistep" -> multiStepFormSchema(p) = {}
    [] k = "dynamic"   -> dynamicFormSchema(p) = {}
    [] k = "file"      -> /\ p.name > 0 /\ p.email # "" /\ p.file # <<>>
                          /\ p.file[1].type \in AllowedTypes
                          /\ p.file[1].size <= MaxFileSize
    [] OTHER           -> FALSE

\* The wizard throws while rendering steps[step] once step leaves 0..2
Mounted == kind = "multistep" => step \in 0..2

\* disabled={isSubmitting} on the submit button; the wizard renders the
\* submit button on its last step only, and no form once submitSuccess
SubmitEnabled ==
  /\ ~isSubmitting
  /\ kind = "multistep" => (step = 2 /\ ~submitSuccess)

\* setIsSubmitting(true); setSubmitError(null); ...; fetch / xhr.send.
\* A request in flight is kept as its stage and what the endpoint's
\* validation will say to its body.
BeginOnSubmit(payload) ==
  /\ isSubmitting' = TRUE
  /\ submitError' = "null"
  /\ net' = net (+) One([stage |-> "sent", accepts |-> EndpointAccepts(kind, payload)])

\* A submit event on a fixed form: handleSubmit(onSubmit) starts and awaits
\* the resolver
submitClick ==
  /\ kind \in FixedKinds
  /\ Mounted
  /\ SubmitEnabled
  /\ submits < MaxSubmits
  /\ submits' = submits + 1
  /\ validating' = validating (+) One(values)
  /\ UNCHANGED <<kind, builderVars, isSubmitting, submitSuccess, submitError, net, rows,
                 timers, values, wizardVars, fileVars>>
  /\ UNCHANGED serverVars

\* The resolver settles: onSubmit(data) runs if there are no errors
onSubmit(data) ==
  /\ BagIn(data, validating)
  /\ validating' = validating (-) One(data)
  /\ IF ClientSchema(kind, data) = {}
     THEN /\ BeginOnSubmit(data)
          /\ uploadProgress' = IF kind = "file" THEN 0 ELSE uploadProgress
     ELSE UNCHANGED <<isSubmitting, submitError, net, uploadProgress>>
  /\ UNCHANGED <<kind, builderVars, submitSuccess, rows, timers, submits, values,
                 wizardVars, selectedFile>>
  /\ UNCHANGED serverVars

\* The Save Form button of the builder:
\* disabled={isSubmitting || fields.length === 0 || !formName}
handleFormSubmit ==
  /\ kind = "dynamic"
  /\ ~isSubmitting /\ Len(fields) > 0 /\ formName # ""
  /\ submits < MaxSubmits
  /\ submits' = submits + 1
  /\ BeginOnSubmit(generateFormData)
  /\ UNCHANGED <<kind, builderVars, submitSuccess, validating, rows, timers, values,
                 wizardVars, fileVars>>
  /\ UNCHANGED serverVars

\* useFormSubmission: submitForm(url, data), called by whoever holds the hook.
\* What the endpoint behind url makes of data is the caller's business.
submitForm ==
  /\ kind = "submission"
  /\ submits < MaxSubmits
  /\ submits' = submits + 1
  /\ isSubmitting' = TRUE
  /\ submitError' = "null"
  /\ \E accepts \in BOOLEAN : net' = net (+) One([stage |-> "sent", accepts |-> accepts])
  /\ UNCHANGED <<kind, builderVars, submitSuccess, validating, rows, timers, values,
                 wizardVars, fileVars>>
  /\ UNCHANGED serverVars

\* The endpoint handles a request: a row on success, else a 4xx/5xx answer
serverHandles(r) ==
  /\ BagIn(r, net) /\ r.stage = "sent"
  /\ \E storageFails \in BOOLEAN :
       IF r.accepts /\ ~storageFails
       THEN /\ rows' = rows + 1
            /\ net' = (net (-) One(r)) (+) One([r EXCEPT !.stage = "ok"])
       ELSE /\ rows' = rows
            /\ net' = (net (-) One(r)) (+) One([r EXCEPT !.stage = "bad"])
  /\ UNCHANGED <<kind, builderVars, isSubmitting, submitSuccess, submitError, validating,
                 timers, submits, values, wizardVars, fileVars>>
  /\ UNCHANGED serverVars

\* The transport gives up on a request or on its response
transportError(r) ==
  /\ BagIn(r, net) /\ r.stage # "neterr"
  /\ net' = (net (-) One(r)) (+) One([r EXCEPT !.stage = "neterr"])
  /\ UNCHANGED <<kind, builderVars, isSubmitting, submitSuccess, submitError, validating,
                 rows, timers, submits, values, wizardVars, fileVars>>
  /\ UNCHANGED serverVars

\* xhr.upload 'progress': Math.round((event.loaded / event.total) * 100)
Progress(loaded, total) == (200 * loaded + total) \div (2 * total)

uploadProgressEvent(r) ==
  /\ kind = "file"
  /\ BagIn(r, net) /\ r.stage = "sent"
  /\ \E loaded \in 0..2 : uploadProgress' = Progress(loaded, 2)
  /\ uploadProgress' # uploadProgress
  /\ UNCHANGED <<kind, builderVars, submitVars, values, wizardVars, selectedFile>>
  /\ UNCHANGED serverVars

\* A success branch of the builder without setFormName('')
ResetWorkingState_NameKept ==
  CASE kind = "dynamic" ->
         /\ fields' = <<>>
         /\ UNCHANGED <<formName, fieldBeingEdited, formId, formType, formOptions, values,
                        step, selectedFile>>
    [] kind = "contact" ->
         /\ values' = ContactDefault
         /\ UNCHANGED <<builderVars, step, selectedFile>>
    [] kind = "multistep" ->
         /\ values' = WizardDefault /\ step' = 0
         /\ UNCHANGED <<builderVars, selectedFile>>
    [] kind = "file" ->
         /\ values' = FileDefault /\ selectedFile' = <<>>
         /\ UNCHANGED <<builderVars, step>>
    [] OTHER ->
         UNCHANGED <<builderVars, values, step, selectedFile>>

\* What the success branch of each handler does to the working form state
ResetWorkingState ==
  CASE kind = "dynamic" ->
         /\ fields' = <<>> /\ formName' = ""
         /\ UNCHANGED <<fieldBeingEdited, formId, formType, formOptions, values, step, selectedFile>>
    [] kind = "contact" ->
         /\ values' = ContactDefault
         /\ UNCHANGED <<builderVars, step, selectedFile>>
    [] kind = "multistep" ->
         /\ values' = WizardDefault /\ step' = 0
         /\ UNCHANGED <<builderVars, selectedFile>>
    [] kind = "file" ->
         /\ values' = FileDefault /\ selectedFile' = <<>>
         /\ UNCHANGED <<builderVars, step>>
    [] OTHER ->
         UNCHANGED <<builderVars, values, step, selectedFile>>

\* A failure branch that resets the form as the success branch does
KeepWorkingState_Reset == ResetWorkingState

\* The failure branch: setSubmitError(message) and nothing else
KeepWorkingState == UNCHANGED <<builderVars, values, step, selectedFile>>

\* catch (error): error.message
ErrorMessage(stage) ==
  CASE kind = "file" /\ stage = "bad"    -> "Upload failed with status"
    [] kind = "file" /\ stage = "neterr" -> "Network error occurred during upload"
    [] stage = "bad"                     -> "Failed to submit form"
    [] OTHER                             -> "Failed to fetch"

\* A handler without its finally block
Finally_Missing == UNCHANGED <<isSubmitting, uploadProgress>>

\* finally { setIsSubmitting(false) } (and setUploadProgress(0) for uploads)
Finally ==
  /\ isSubmitting' = FALSE
  /\ uploadProgress' = IF kind = "file" THEN 0 ELSE uploadProgress

\* The awaited fetch / upload settles with a 2xx answer
responseOk(r) ==
  /\ BagIn(r, net) /\ r.stage = "ok"
  /\ net' = net (-) One(r)
  /\ ResetWorkingState
  /\ submitSuccess' = TRUE
  /\ timers' = timers + 1
  /\ Finally
  /\ UNCHANGED <<kind, submitError, validating, rows, submits, pendingNext>>
  /\ UNCHANGED serverVars

\* The awaited fetch / upload settles with a non-2xx answer or a transport error
responseFailed(r) ==
  /\ BagIn(r, net) /\ r.stage \in {"bad", "neterr"}
  /\ net' = net (-) One(r)
  /\ KeepWorkingState
  /\ submitError' = ErrorMessage(r.stage)
  /\ Finally
  /\ UNCHANGED <<kind, submitSuccess, timers, validating, rows, submits, pendingNext>>
  /\ UNCHANGED serverVars

\* setTimeout(() => setSubmitSuccess(false), 5000)
successTimerFires ==
  /\ timers > 0
  /\ timers' = timers - 1
  /\ submitSuccess' = FALSE
  /\ UNCHANGED <<kind, builderVars, isSubmitting, submitError, validating, net, rows,
                 submits, values, wizardVars, fileVars>>
  /\ UNCHANGED serverVars

\* The Start Over button of the wizard's success panel
startOver ==
  /\ kind = "multistep"
  /\ submitSuccess
  /\ submitSuccess' = FALSE
  /\ UNCHANGED <<kind, builderVars, isSubmitting, submitError, validating, net, rows,
                 timers, submits, values, wizardVars, fileVars>>
  /\ UNCHANGED serverVars

(***************************************************************************)
(* The wizard (MultiStepForm, both variants).                              *)
(***************************************************************************)
\* The form (fields, Previous, Next/Submit) is rendered
WizardFormShown == kind = "multistep" /\ step \in 0..2 /\ ~submitSuccess

\* The Next button (rendered while step < steps.length - 1) and Alt+Right
\* (guarded by step < steps.length - 1): handleNext up to await trigger(...)
handleNext ==
  /\ WizardFormShown
  /\ step < 2
  /\ BagCardinality(pendingNext) < MaxPending
  /\ pendingNext' = pendingNext (+)
       One([step |-> step, isValid |-> trigger(StepFields(step), values)])
  /\ UNCHANGED <<kind, builderVars, submitVars, values, step, fileVars>>
  /\ UNCHANGED serverVars

\* setStep(prevStep => prevStep + 1)
NextStep(prevStep) == prevStep + 1

\* trigger() settles: if (isValid) setStep(...)
handleNextResumes(p) ==
  /\ kind = "multistep"
  /\ BagIn(p, pendingNext)
  /\ pendingNext' = pendingNext (-) One(p)
  /\ step' = IF p.isValid THEN NextStep(step) ELSE step
  /\ UNCHANGED <<kind, builderVars, submitVars, values, fileVars>>
  /\ UNCHANGED serverVars

\* The Previous button (disabled={step === 0}) and Alt+Left (step > 0)
handlePrevious ==
  /\ WizardFormShown
  /\ step > 0
  /\ step' = step - 1
  /\ UNCHANGED <<kind, builderVars, submitVars, values, pendingNext, fileVars>>
  /\ UNCHANGED serverVars

\* The user fills in or blanks the fields of the step on screen
wizardInput(fill) ==
  /\ WizardFormShown
  /\ values' = WizardEdit(values, step, fill)
  /\ values' # values
  /\ UNCHANGED <<kind, builderVars, submitVars, wizardVars, fileVars>>
  /\ UNCHANGED serverVars

(***************************************************************************)
(* Contact form and file upload form input.                                *)
(***************************************************************************)
contactInput(v) ==
  /\ kind = "contact"
  /\ values' = v
  /\ values' # values
  /\ UNCHANGED <<kind, builderVars, submitVars, wizardVars, fileVars>>
  /\ UNCHANGED serverVars

\* name and email inputs of the upload form
fileFormInput(fill) ==
  /\ kind = "file"
  /\ values' = [values EXCEPT !.name = IF fill THEN 4 ELSE 0,
                              !.email = IF fill THEN "a@b.c" ELSE ""]
  /\ values' # values
  /\ UNCHANGED <<kind, builderVars, submitVars, wizardVars, fileVars>>
  /\ UNCHANGED serverVars

\* handleFileChange / handleDrop with a file
handleFileChange(file) ==
  /\ kind = "file"
  /\ selectedFile' = <<file>>
  /\ values' = [values EXCEPT !.file = <<file>>]
  /\ values' # values
  /\ UNCHANGED <<kind, builderVars, submitVars, wizardVars, uploadProgress>>
  /\ UNCHANGED serverVars

\* clearFile, and handleFileChange with no file
clearFile ==
  /\ kind = "file"
  /\ selectedFile # <<>>
  /\ selectedFile' = <<>>
  /\ values' = [values EXCEPT !.file = <<>>]
  /\ UNCHANGED <<kind, builderVars, submitVars, wizardVars, uploadProgress>>
  /\ UNCHANGED serverVars

(***************************************************************************)
(* The endpoints (app/api/forms/*/route.ts).  A request is handled in      *)
(* steps, one per await of its POST function; requests interleave at the   *)
(* awaits.                                                                 *)
(***************************************************************************)
Endpoints == {"contact", "multistep", "dynamic", "file"}

\* NextResponse.json(body, {status}); status 0: not answered yet.
\* shape is "ok" {success: true, ...}, "errors" {success: false, errors},
\* "message" {success: false, message}, or "thrown" for an exception that
\* leaves POST.
NoResponse == [status |-> 0, shape |-> "none", errors |-> {}, message |-> ""]
OkResponse == [status |-> 200, shape |-> "ok", errors |-> {}, message |-> ""]
ValidationResponse(fieldErrors) ==
  [status |-> 400, shape |-> "errors", errors |-> fieldErrors, message |-> ""]
MessageResponse(st, msg) ==
  [status |-> st, shape |-> "message", errors |-> {}, message |-> msg]

GenericMessage(e) ==
  IF e = "file" THEN "An error occurred while processing your upload"
  ELSE "An error occurred while processing your submission"

\* A handler without try/catch: the exception leaves POST
CatchResponse_Rethrow(e) == [status |-> 0, shape |-> "thrown", errors |-> {}, message |-> ""]

\* catch (error) { console.error(...); return NextResponse.json({success: false,
\* message}, {status: 500}) }
CatchResponse(e) == MessageResponse(500, GenericMessage(e))

\* <schema>.safeParse(body).  A body that is JSON but no object fails with
\* form-level errors only, so fieldErrors is empty.
SafeParse(e, body) ==
  IF body.shape # "object" THEN [success |-> FALSE, fieldErrors |-> {}]
  ELSE LET errs == CASE e = "contact"   -> contactFormSchema(body.data)
                     [] e = "multistep" -> multiStepFormSchema(body.data)
                     [] OTHER           -> dynamicFormSchema(body.data)
       IN [success |-> errs = {}, fieldErrors |-> errs]

\* The keys of dynamicFieldSchema; z.object() strips every other key
FieldKeys == {"id", "label", "type", "required", "options", "value"}

\* A parse that sets required to its default whatever the body says
ParsedField_RequiredDefault(f) ==
  [k \in (DOMAIN f \cap FieldKeys) \cup {"required"} |->
     IF k = "required" THEN FALSE ELSE f[k]]

\* required: z.boolean().default(false) in the parsed field
ParsedField(f) ==
  [k \in (DOMAIN f \cap FieldKeys) \cup {"required"} |->
     IF k \in DOMAIN f THEN f[k] ELSE FALSE]

\* The row each endpoint builds from result.data
RowOf(e, d) ==
  CASE e = "contact" ->
         [name |-> d.name, email |-> d.email, subject |-> d.subject, message |-> d.message]
    [] e = "multistep" ->
         \* addressLine2 || null, phone || null
         [d EXCEPT !.addressLine2 = IF d.addressLine2 > 0 THEN d.addressLine2 ELSE Absent,
                   !.phone = IF d.phone > 0 THEN d.phone ELSE Absent]
    [] OTHER ->
         [formName |-> d.formName,
          fields   |-> [i \in 1..Len(d.fields) |-> ParsedField(d.fields[i])]]

\* schema.sql: VARCHAR(n) and NOT NULL of the columns a row fills
EmailLen(e) == IF e = "long@b.c" THEN 300 ELSE 5
Fits(n, max) == n # Absent /\ n <= max
FitsOrNull(n, max) == n <= max
ColumnsAccept(e, row) ==
  CASE e = "contact" ->
         /\ Fits(row.name, 255) /\ Fits(EmailLen(row.email), 255) /\ Fits(row.subject, 255)
    [] e = "multistep" ->
         /\ Fits(row.firstName, 255) /\ Fits(row.lastName, 255)
         /\ Fits(EmailLen(row.email), 255)
         /\ Fits(row.addressLine1, 255) /\ FitsOrNull(row.addressLine2, 255)
         /\ Fits(row.city, 255) /\ Fits(row.state, 255) /\ Fits(row.postalCode, 20)
         /\ Fits(row.country, 255) /\ FitsOrNull(row.phone, 20)
    [] e = "file" ->
         /\ Fits(row.name, 255) /\ Fits(EmailLen(row.email), 255)
         /\ Fits(Len(row.file_name), 255)
    [] OTHER -> TRUE

\* originalName.replace(extension, '').replace(/[^a-zA-Z0-9]/g, '_').toLowerCase()
SanitizeChar(c) ==
  CASE c \in {"a", "b"} -> c
    [] c = "A" -> "a"
    [] c = "B" -> "b"
    [] OTHER -> "_"
sanitizedName(stem) == [i \in 1..Len(stem) |-> SanitizeChar(stem[i])]

\* `${sanitizedName}_${timestamp}${extension}`
Filename(file, timestamp) ==
  [base |-> sanitizedName(file.stem), timestamp |-> timestamp, ext |-> file.ext]

\* The checks of the upload endpoint with file.size >= maxSize as the last
UploadRejection_AtLimit(d) ==
  IF ~(d.name # Absent /\ d.name > 0) \/ d.email = "" \/ d.file = <<>>
    THEN "Missing required fields"
  ELSE IF d.file[1].type \notin AllowedTypes THEN "File must be JPEG, PNG, or PDF"
  ELSE IF d.file[1].size >= MaxFileSize THEN "File size must be less than 5MB"
  ELSE ""

\* The checks of the upload endpoint, in the order of the code: the first
\* that fails answers the request
UploadRejection(d) ==
  IF ~(d.name # Absent /\ d.name > 0) \/ d.email = "" \/ d.file = <<>>
    THEN "Missing required fields"
  ELSE IF d.file[1].type \notin AllowedTypes THEN "File must be JPEG, PNG, or PDF"
  ELSE IF d.file[1].size > MaxFileSize THEN "File size must be less than 5MB"
  ELSE ""

Answer(i, resp) == [reqs EXCEPT ![i].pc = "done", ![i].response = resp]

\* What a client can send.  shape "malformed": request.json() or
\* request.formData() throws; "other": JSON that is no object (null, [], 1).
Malformed == [shape |-> "malformed", data |-> <<>>]
NotAnObject == [shape |-> "other", data |-> <<>>]
Object(d) == [shape |-> "object", data |-> d]

ContactValid == [name |-> 4, email |-> "a@b.c", subject |-> 5, message |-> 10]
ContactBodies ==
  { ContactValid,
    [ContactValid EXCEPT !.message = 9],
    [ContactValid EXCEPT !.message = 1000],
    [ContactValid EXCEPT !.message = 1001],
    [ContactValid EXCEPT !.name = Absent, !.email = "x"],
    [ContactValid EXCEPT !.email = "long@b.c"] }

WizardFilled ==
  [firstName |-> 3, lastName |-> 3, email |-> "a@b.c",
   addressLine1 |-> 3, addressLine2 |-> 0, city |-> 3, state |-> 3,
   postalCode |-> 3, country |-> 3, phone |-> 10, preferences |-> TRUE]
MultistepBodies ==
  { WizardFilled,
    [WizardFilled EXCEPT !.addressLine2 = Absent, !.phone = Absent],
    [WizardFilled EXCEPT !.city = 0, !.email = "x"],
    [WizardFilled EXCEPT !.postalCode = 25] }

TextField == [id |-> "k1", label |-> "Name", type |-> "text", required |-> TRUE,
              options |-> NoOptions]
\* What the builder sends for a select field with one option and a text field
ColorField == [id |-> "k2", label |-> "Color", type |-> "select", required |-> FALSE,
               options |-> [present |-> TRUE,
                            list |-> <<[label |-> <<"R", " ", " ", "g">>,
                                        value |-> <<"r", "_", "g">>]>>]]
DynamicBodies ==
  { [formName |-> "Survey", fields |-> <<TextField>>],
    [formName |-> "Survey", fields |-> <<ColorField, [TextField EXCEPT !.options = EmptyOptions]>>],
    [formName |-> "", fields |-> <<>>],
    [formName |-> "Survey",
     fields |-> <<[id |-> "k1", label |-> "Name", type |-> "text", placeholder |-> "x"]>>],
    [formName |-> "Survey", fields |-> <<[TextField EXCEPT !.type = "range"]>>],
    [fields |-> <<TextField>>] }

Png6M == [stem |-> <<"A", " ">>, ext |-> ".png", type |-> "image/png", size |-> 6291456]
\* A file of exactly maxSize bytes and one of a byte more
PdfAtLimit   == [stem |-> <<"b">>, ext |-> ".pdf", type |-> "application/pdf", size |-> 5242880]
PdfOverLimit == [stem |-> <<"b">>, ext |-> ".pdf", type |-> "application/pdf", size |-> 5242881]
FileBodies ==
  { [name |-> 3, email |-> "a@b.c", file |-> <<Png2M>>],
    [name |-> 3, email |-> "a@b.c", file |-> <<PdfAtLimit>>],
    [name |-> 3, email |-> "a@b.c", file |-> <<PdfOverLimit>>],
    [name |-> 3, email |-> "x", file |-> <<[Png2M EXCEPT !.stem = <<"A", " ">>]>>],
    [name |-> 3, email |-> "a@b.c", file |-> <<Txt1M>>],
    [name |-> 3, email |-> "a@b.c", file |-> <<Png6M>>],
    [name |-> Absent, email |-> "a@b.c", file |-> <<Png2M>>],
    [name |-> 3, email |-> "a@b.c", file |-> <<>>] }

Bodies(e) ==
  {Malformed} \cup
  CASE e = "contact"   -> {NotAnObject} \cup {Object(d) : d \in ContactBodies}
    [] e = "multistep" -> {Object(d) : d \in MultistepBodies}
    [] e = "dynamic"   -> {Object(d) : d \in DynamicBodies}
    [] OTHER           -> {Object(d) : d \in FileBodies}

\* A request arrives at an endpoint
receive(e, body) ==
  /\ Len(reqs) < MaxRequests
  /\ reqs' = Append(reqs, [endpoint |-> e, body |-> body, pc |-> "received",
                           filename |-> <<>>, response |-> NoResponse])
  /\ UNCHANGED <<tables, uploads, clock>>
  /\ UNCHANGED clientVars

\* A handler that goes on to the INSERT without looking at safeParse's result
postValidate_NoCheck(i) ==
  /\ i \in 1..Len(reqs)
  /\ reqs[i].pc = "received" /\ reqs[i].endpoint # "file"
  /\ reqs' = IF reqs[i].body.shape = "malformed" THEN Answer(i, CatchResponse(reqs[i].endpoint))
             ELSE [reqs EXCEPT ![i].pc = "inserting"]
  /\ UNCHANGED <<tables, uploads, clock>>
  /\ UNCHANGED clientVars

\* contact / multi-step / dynamic POST from await request.json() to the
\* await of query(...)
postValidate(i) ==
  /\ i \in 1..Len(reqs)
  /\ reqs[i].pc = "received" /\ reqs[i].endpoint # "file"
  /\ LET r == reqs[i]
         result == SafeParse(r.endpoint, r.body)
     IN reqs' = IF r.body.shape = "malformed" THEN Answer(i, CatchResponse(r.endpoint))
                ELSE IF ~result.success
                  THEN Answer(i, ValidationResponse(result.fieldErrors))
                ELSE [reqs EXCEPT ![i].pc = "inserting"]
  /\ UNCHANGED <<tables, uploads, clock>>
  /\ UNCHANGED clientVars

\* An INSERT that is run twice
Insert_Twice(e, row) ==
  CASE e = "contact" ->
         /\ contact_submissions' = Append(Append(contact_submissions, row), row)
         /\ UNCHANGED <<multistep_submissions, dynamic_submissions, file_submissions>>
    [] e = "multistep" ->
         /\ multistep_submissions' = Append(Append(multistep_submissions, row), row)
         /\ UNCHANGED <<contact_submissions, dynamic_submissions, file_submissions>>
    [] e = "dynamic" ->
         /\ dynamic_submissions' = Append(Append(dynamic_submissions, row), row)
         /\ UNCHANGED <<contact_submissions, multistep_submissions, file_submissions>>
    [] e = "file" ->
         /\ file_submissions' = Append(Append(file_submissions, row), row)
         /\ UNCHANGED <<contact_submissions, multistep_submissions, dynamic_submissions>>

\* query(text, params): the INSERT runs, or db.query rejects and query rethrows
Insert(e, row) ==
  CASE e = "contact" ->
         /\ contact_submissions' = Append(contact_submissions, row)
         /\ UNCHANGED <<multistep_submissions, dynamic_submissions, file_submissions>>
    [] e = "multistep" ->
         /\ multistep_submissions' = Append(multistep_submissions, row)
         /\ UNCHANGED <<contact_submissions, dynamic_submissions, file_submissions>>
    [] e = "dynamic" ->
         /\ dynamic_submissions' = Append(dynamic_submissions, row)
         /\ UNCHANGED <<contact_submissions, multistep_submissions, file_submissions>>
    [] e = "file" ->
         /\ file_submissions' = Append(file_submissions, row)
         /\ UNCHANGED <<contact_submissions, multistep_submissions, dynamic_submissions>>

\* What POST does when the awaited query rejects
InsertFailed(i) == Answer(i, CatchResponse(reqs[i].endpoint))

\* The awaited INSERT of contact / multi-step / dynamic settles
postInsert(i) ==
  /\ i \in 1..Len(reqs)
  /\ reqs[i].pc = "inserting" /\ reqs[i].endpoint # "file"
  /\ LET r == reqs[i]
         row == RowOf(r.endpoint, r.body.data)
     IN \E dbFails \in BOOLEAN :
          IF ColumnsAccept(r.endpoint, row) /\ ~dbFails
          THEN /\ Insert(r.endpoint, row)
               /\ reqs' = Answer(i, OkResponse)
          ELSE /\ reqs' = InsertFailed(i)
               /\ UNCHANGED tables
  /\ UNCHANGED <<uploads, clock>>
  /\ UNCHANGED clientVars

\* upload POST from await request.formData() to await mkdir(...)
uploadValidate(i) ==
  /\ i \in 1..Len(reqs)
  /\ reqs[i].pc = "received" /\ reqs[i].endpoint = "file"
  /\ LET r == reqs[i] IN
     reqs' = IF r.body.shape # "object" THEN Answer(i, CatchResponse("file"))
             ELSE IF UploadRejection(r.body.data) # ""
               THEN Answer(i, MessageResponse(400, UploadRejection(r.body.data)))
             ELSE [reqs EXCEPT ![i].pc = "mkdir",
                               ![i].filename = <<Filename(r.body.data.file[1], clock)>>]
  /\ UNCHANGED <<tables, uploads, clock>>
  /\ UNCHANGED clientVars

\* await mkdir(uploadsDir, {recursive: true}) settles
uploadMkdir(i) ==
  /\ i \in 1..Len(reqs)
  /\ reqs[i].pc = "mkdir"
  /\ \E fsFails \in BOOLEAN :
       reqs' = IF fsFails THEN Answer(i, CatchResponse("file"))
               ELSE [reqs EXCEPT ![i].pc = "writing"]
  /\ UNCHANGED <<tables, uploads, clock>>
  /\ UNCHANGED clientVars

\* await file.arrayBuffer(); await writeFile(filePath, fileBuffer) settles:
\* the file of that name now holds this request's bytes
WriteFile(name, content) ==
  {f \in uploads : f.filename # name} \cup {[filename |-> name, content |-> content]}

\* A handler that inserts the row without having written the file
uploadWrite_Skipped(i) ==
  /\ i \in 1..Len(reqs)
  /\ reqs[i].pc = "writing"
  /\ reqs' = [reqs EXCEPT ![i].pc = "inserting"]
  /\ UNCHANGED <<tables, uploads, clock>>
  /\ UNCHANGED clientVars

uploadWrite(i) ==
  /\ i \in 1..Len(reqs)
  /\ reqs[i].pc = "writing"
  /\ \E fsFails \in BOOLEAN :
       IF fsFails
       THEN /\ reqs' = Answer(i, CatchResponse("file"))
            /\ UNCHANGED uploads
       ELSE /\ reqs' = [reqs EXCEPT ![i].pc = "inserting"]
            /\ uploads' = WriteFile(reqs[i].filename[1], i)
  /\ UNCHANGED <<tables, clock>>
  /\ UNCHANGED clientVars

\* The row of file_submissions: (name, email, originalName, publicPath, size, type)
FileRow(r) ==
  LET d == r.body.data IN
  [name |-> d.name, email |-> d.email,
   file_name |-> d.file[1].stem, file_ext |-> d.file[1].ext,
   file_path |-> r.filename[1], file_size |-> d.file[1].size, file_type |-> d.file[1].type]

\* The awaited INSERT of the upload endpoint settles
uploadInsert(i) ==
  /\ i \in 1..Len(reqs)
  /\ reqs[i].pc = "inserting" /\ reqs[i].endpoint = "file"
  /\ \E dbFails \in BOOLEAN :
       IF ColumnsAccept("file", FileRow(reqs[i])) /\ ~dbFails
       THEN /\ Insert("file", FileRow(reqs[i]))
            /\ reqs' = Answer(i, OkResponse)
       ELSE /\ reqs' = InsertFailed(i)
            /\ UNCHANGED tables
  /\ UNCHANGED <<uploads, clock>>
  /\ UNCHANGED clientVars

\* Time passes
tick ==
  /\ clock < MaxClock
  /\ clock' = clock + 1
  /\ UNCHANGED <<reqs, tables, uploads>>
  /\ UNCHANGED clientVars

(***************************************************************************)
(* Specifications.                                                         *)
(***************************************************************************)
InitialValues(k) ==
  CASE k = "multistep" -> WizardDefault
    [] k = "file"      -> FileDefault
    [] OTHER           -> ContactDefault

\* The state after the first render of a component of kind k
InitWith(k, list) ==
  /\ kind = k
  /\ fields = list
  /\ formName = ""
  /\ fieldBeingEdited = <<>>
  /\ formId = ""
  /\ formType = "text"
  /\ formOptions = EmptyOptions
  /\ isSubmitting = FALSE
  /\ submitSuccess = FALSE
  /\ submitError = "null"
  /\ validating = EmptyBag
  /\ net = EmptyBag
  /\ rows = 0
  /\ timers = 0
  /\ submits = 0
  /\ values = InitialValues(k)
  /\ step = 0
  /\ pendingNext = EmptyBag
  /\ selectedFile = <<>>
  /\ uploadProgress = 0

InitOf(k) == InitWith(k, <<>>)

\* No request has arrived, the tables and the uploads directory are empty
ServerInit ==
  /\ reqs = <<>>
  /\ contact_submissions = <<>>
  /\ multistep_submissions = <<>>
  /\ dynamic_submissions = <<>>
  /\ file_submissions = <<>>
  /\ uploads = {}
  /\ clock = 0

vars == <<clientVars, serverVars>>

Pipeline ==
  \/ submitClick
  \/ \E data \in BagToSet(validating) : onSubmit(data)
  \/ handleFormSubmit
  \/ submitForm
  \/ \E r \in BagToSet(net) : serverHandles(r)
  \/ \E r \in BagToSet(net) : transportError(r)
  \/ \E r \in BagToSet(net) : uploadProgressEvent(r)
  \/ \E r \in BagToSet(net) : responseOk(r)
  \/ \E r \in BagToSet(net) : responseFailed(r)
  \/ successTimerFires
  \/ startOver

Builder ==
  \/ addField
  \/ \E i \in 1..Len(fields) : editField(i)
  \/ \E i \in 1..Len(fields) : removeField(i)
  \/ cancelEdit
  \/ \E type \in TypeChoices : setFieldType(type)
  \/ \E name \in FormNames : setFormName(name)
  \/ \E field \in HookFields : hookAddField(field)
  \/ \E field \in HookFields : hookEditField(field)
  \/ \E id \in GenIds : hookRemoveField(id)
  \/ clearFieldBeingEdited

Wizard ==
  \/ handleNext
  \/ \E p \in BagToSet(pendingNext) : handleNextResumes(p)
  \/ handlePrevious
  \/ \E fill \in BOOLEAN : wizardInput(fill)

Inputs ==
  \/ \E v \in ContactInputs \cup {ContactDefault} : contactInput(v)
  \/ \E fill \in BOOLEAN : fileFormInput(fill)
  \/ \E file \in FileInputs : handleFileChange(file)
  \/ clearFile

Init == ServerInit /\ \E k \in Kinds : InitOf(k)
Next == Pipeline \/ Builder \/ Wizard \/ Inputs
Spec == Init /\ [][Next]_vars

\* The add/edit field form of the builder on its own, over a field list the
\* builder has been brought to: a select field with an option, a text field
SelectField ==
  [id |-> "k1", label |-> "Color", type |-> "select", required |-> FALSE,
   options |-> [present |-> TRUE,
                list |-> <<[label |-> <<"R", " ", " ", "g">>, value |-> <<"r", "_", "g">>]>>]]
NameField ==
  [id |-> "k2", label |-> "Name", type |-> "text", required |-> TRUE,
   options |-> EmptyOptions]
EditableLists ==
  {<<SelectField>>, <<NameField, SelectField>>, <<SelectField, NameField>>}

EditFormInit ==
  /\ ServerInit
  /\ \E list \in EditableLists : InitWith("dynamic", list)
EditFormNext ==
  \/ \E i \in 1..Len(fields) : editField(i)
  \/ \E type \in FieldTypes : setFieldType(type)
  \/ addOption
  \/ \E index \in 1..MaxOptions : \E value \in OptionTexts : handleOptionChange(index, value)
  \/ \E index \in 1..MaxOptions : removeOption(index)
  \/ cancelEdit
EditFormSpec == EditFormInit /\ [][EditFormNext]_vars

\* The endpoints on their own, under any requests
ServerNext ==
  \/ \E e \in Endpoints : \E body \in Bodies(e) : receive(e, body)
  \/ \E i \in 1..MaxRequests : postValidate(i)
  \/ \E i \in 1..MaxRequests : postInsert(i)
  \/ \E i \in 1..MaxRequests : uploadValidate(i)
  \/ \E i \in 1..MaxRequests : uploadMkdir(i)
  \/ \E i \in 1..MaxRequests : uploadWrite(i)
  \/ \E i \in 1..MaxRequests : uploadInsert(i)
  \/ tick
EndpointsInit == ServerInit /\ InitOf("contact")
ServerSpec == EndpointsInit /\ [][ServerNext]_vars

\* The client under a transport that eventually answers or fails every request
\* it carries, and a runtime that eventually runs the code after a settled await
LiveSpec ==
  /\ Init /\ [][Next]_vars
  /\ WF_vars(\E r \in BagToSet(net) : serverHandles(r) \/ transportError(r))
  /\ WF_vars(\E r \in BagToSet(net) : responseOk(r) \/ responseFailed(r))

\* LiveSpec under a runtime that also eventually runs a timer that is due
TimedSpec ==
  /\ Init /\ [][Next]_vars
  /\ WF_vars(\E r \in BagToSet(net) : serverHandles(r) \/ transportError(r))
  /\ WF_vars(\E r \in BagToSet(net) : responseOk(r) \/ responseFailed(r))
  /\ WF_vars(successTimerFires)

(***************************************************************************)
(* Properties.                                                             *)
(***************************************************************************)
\* A request handling step of request i
Handles(i) ==
  postValidate(i) \/ postInsert(i) \/ uploadValidate(i) \/ uploadMkdir(i)
    \/ uploadWrite(i) \/ uploadInsert(i)

\* The ids of a field list
Ids(fs) == {fs[i].id : i \in 1..Len(fs)}

\* C1: a form instance has at most one submission in flight (being validated,
\* or sent and not yet answered to the handler) at any time.
C1_AtMostOneInFlight ==
  BagCardinality(validating) + BagCardinality(net) <= 1

\* C2: every increase of the wizard's step index is the step of a settling
\* validation that was started at the current step and succeeded.
C2_AdvanceByOwnStepValidation ==
  [][step' > step =>
       \E p \in BagToSet(pendingNext) :
         /\ p.step = step /\ p.isValid
         /\ step' = step + 1
         /\ pendingNext' = pendingNext (-) One(p)]_vars

\* The requests to endpoint e answered with status st
C3_Answered(e, st) ==
  {i \in 1..Len(reqs) : reqs[i].endpoint = e /\ reqs[i].response.status = st}

\* C3: on the contact, multi-step and dynamic endpoints a payload the schema
\* rejects is answered 400 with success=false and the field-keyed errors and
\* never reaches the INSERT; every row stored passed the schema, and there
\* is one row per request answered 200.
C3_ValidationGatesInsert ==
  /\ \A i \in 1..Len(reqs) :
       LET r == reqs[i] IN
       (r.endpoint # "file" /\ r.body.shape # "malformed"
          /\ ~SafeParse(r.endpoint, r.body).success) =>
         /\ r.pc \in {"received", "done"}
         /\ r.pc = "done" =>
              /\ r.response.status = 400
              /\ r.response.shape = "errors"
              /\ r.response.errors = SafeParse(r.endpoint, r.body).fieldErrors
  /\ \A k \in 1..Len(contact_submissions) : contactFormSchema(contact_submissions[k]) = {}
  /\ \A k \in 1..Len(multistep_submissions) : multiStepFormSchema(multistep_submissions[k]) = {}
  /\ \A k \in 1..Len(dynamic_submissions) : dynamicFormSchema(dynamic_submissions[k]) = {}
  /\ Len(contact_submissions) = Cardinality(C3_Answered("contact", 200))
  /\ Len(multistep_submissions) = Cardinality(C3_Answered("multistep", 200))
  /\ Len(dynamic_submissions) = Cardinality(C3_Answered("dynamic", 200))

\* A rejected payload has been answered and nothing was stored
C3_Witness ==
  \E i \in 1..Len(reqs) :
    /\ reqs[i].endpoint \in {"contact", "multistep", "dynamic"}
    /\ reqs[i].response.status = 400 /\ reqs[i].response.errors # {}
    /\ contact_submissions = <<>> /\ multistep_submissions = <<>> /\ dynamic_submissions = <<>>

\* Every row of file_submissions references a file that is in the store
C4_RowsReferenceWrittenFiles ==
  \A k \in 1..Len(file_submissions) :
    \E f \in uploads : f.filename = file_submissions[k].file_path
\* The step in which the INSERT of an upload fails
C4_InsertFailureLeavesFile ==
  \A i \in 1..Len(reqs) :
    (reqs[i].endpoint = "file" /\ reqs[i].pc = "inserting"
       /\ reqs'[i].pc = "done" /\ reqs'[i].response.status # 200) =>
      /\ reqs'[i].response.status = 500
      /\ file_submissions' = file_submissions
      /\ uploads' = uploads
      /\ \E f \in uploads' : f.filename = reqs[i].filename[1]

\* C4: an upload reaches its INSERT only with its file in the store, so
\* every row of file_submissions references a written file; when the INSERT
\* fails the request is answered 500, the table is unchanged and the file
\* stays in the store.
C4_WriteBeforeInsert ==
  [](C4_RowsReferenceWrittenFiles /\ \A i \in 1..Len(reqs) :
        (reqs[i].endpoint = "file" /\ reqs[i].pc = "inserting") =>
          \E f \in uploads : f.filename = reqs[i].filename[1])
    /\ [][C4_InsertFailureLeavesFile]_vars

\* An upload wrote its file, failed to insert, and was answered 500
C4_Witness ==
  \E i \in 1..Len(reqs) :
    /\ reqs[i].endpoint = "file" /\ reqs[i].pc = "done"
    /\ reqs[i].response.status = 500
    /\ reqs[i].filename # <<>>
    /\ [filename |-> reqs[i].filename[1], content |-> i] \in uploads
    /\ file_submissions = <<>>

\* A step in which a handler takes the failure of its request
C5_FailureStep ==
  \E r \in BagToSet(net) :
    r.stage \in {"bad", "neterr"} /\ net' = net (-) One(r)

\* C5: a failed submission leaves the field list, the form name, the
\* entered values, the selected file and the wizard step as they were; the
\* submitting flag, the error message and (for uploads) the upload progress
\* are all that change.
C5_FailureKeepsData ==
  [][C5_FailureStep =>
       UNCHANGED <<fields, formName, fieldBeingEdited, formId, formType, formOptions, values,
                   step, pendingNext, selectedFile, submitSuccess, timers>>]_vars

\* C5 as stated: only the submitting flag and the error message change.
C5_OnlyFlagAndMessageChange ==
  [][C5_FailureStep =>
       UNCHANGED <<fields, formName, fieldBeingEdited, formId, formType, formOptions, values,
                   step, pendingNext, selectedFile, submitSuccess, timers,
                   uploadProgress>>]_vars

\* A failed upload: the error is shown, the progress is back at 0, and the
\* name, the email and the selected file are still there
C5_Witness ==
  /\ kind = "file" /\ submitError # "null" /\ ~isSubmitting /\ net = EmptyBag
  /\ uploadProgress = 0
  /\ values.name > 0 /\ values.file # <<>> /\ selectedFile # <<>>

\* C6: whenever a form is submitting it eventually is not, whatever the
\* outcome of the submission.
C6_SubmittingEnds == isSubmitting ~> ~isSubmitting

\* A form is editable again after a failed submission
C6_Witness ==
  /\ submits > 0 /\ ~isSubmitting /\ submitError # "null"
  /\ net = EmptyBag /\ validating = EmptyBag

\* What a request has been answered
C7_AnswerOf(r) ==
  /\ r.pc = "done" <=> r.response # NoResponse
  /\ r.pc = "done" => r.response.status \in {200, 400, 500}
  /\ r.response.shape # "thrown"
  /\ r.response.status = 500 =>
       /\ r.response.shape = "message"
       /\ r.response.message \in {"An error occurred while processing your submission",
                                  "An error occurred while processing your upload"}

\* C7: a request is answered at most once, with 200, 400 or 500, never by
\* an exception leaving the handler; a request not yet answered can always
\* take its next step; a 500 carries success=false and the generic message.
C7_ExactlyOneResponse ==
  [](\A i \in 1..Len(reqs) :
        /\ C7_AnswerOf(reqs[i])
        /\ reqs[i].pc # "done" => ENABLED Handles(i))
    /\ [][\A i \in 1..Len(reqs) : reqs[i].pc = "done" => reqs'[i] = reqs[i]]_vars

\* A body that cannot be read, and a failed INSERT, were both answered 500
C7_Witness ==
  /\ \E i \in 1..Len(reqs) :
       reqs[i].body.shape = "malformed" /\ reqs[i].response.status = 500
  /\ \E i \in 1..Len(reqs) :
       /\ reqs[i].body.shape = "object" /\ reqs[i].response.status = 500
       /\ reqs[i].endpoint # "file"
       /\ SafeParse(reqs[i].endpoint, reqs[i].body).success

\* C8: every 400 has the {success: false, errors} shape, and the
\* {success: false, message} shape comes with 500 only.
C8_ValidationErrorShape ==
  \A i \in 1..Len(reqs) :
    /\ reqs[i].response.status = 400 => reqs[i].response.shape = "errors"
    /\ reqs[i].response.shape = "message" => reqs[i].response.status = 500

\* The fields the builder can be handed in its current state
C9_Submitted ==
  IF kind = "dynamic"
  THEN {NewField(input, gen) : input \in FieldInputs, gen \in GenIds}
  ELSE {HookNewField(f, gen) : f \in HookFields, gen \in GenIds}

\* C9: whatever field is submitted to the builder in its current state, the
\* field is in the list afterwards; an update keeps the length and every
\* other row and clears the edit pointer, an add appends.
C9_SubmittedFieldPresent ==
  kind \in {"dynamic", "hook"} =>
    \A newField \in C9_Submitted :
      LET res == AddOrUpdateResult(fields, fieldBeingEdited, newField) IN
      /\ \E k \in 1..Len(res.fields) : res.fields[k] = newField
      /\ IF fieldBeingEdited # <<>>
         THEN /\ Len(res.fields) = Len(fields)
              /\ res.fieldBeingEdited = <<>>
              /\ Cardinality({k \in 1..Len(fields) : res.fields[k] # fields[k]}) <= 1
         ELSE res.fields = Append(fields, newField)

\* C10: the ids of the fields of the builder are pairwise distinct.
C10_IdsDistinct ==
  Cardinality(Ids(fields)) = Len(fields)

\* C11: a field keeps its id when it is updated: a step that replaces a field
\* of the list (the list keeps its length) leaves the id at every position as
\* it was.
C11_IdKeptOnUpdate ==
  [][(fieldBeingEdited # <<>> /\ Len(fields') = Len(fields))
       => \A k \in 1..Len(fields) : fields'[k].id = fields[k].id]_vars

\* C12: no step of the add/edit field form (starting an edit, changing the
\* type, adding, renaming or removing an option, cancelling) changes the field
\* list, so the list after edit, changes and cancel is the list from before
\* the edit, and cancelling leaves no field being edited and the form at its
\* defaults.
C12_EditThenCancelKeepsFields ==
  [][/\ fields' = fields
     /\ (fieldBeingEdited # <<>> /\ fieldBeingEdited' = <<>>)
          => (formId' = "" /\ formType' = "text" /\ formOptions' = EmptyOptions)]_vars

\* An edit of a listed field is open and the edit form holds another type and
\* other options than the listed field has.
C12_Witness ==
  /\ fieldBeingEdited # <<>>
  /\ \E k \in 1..Len(fields) : fields[k] = fieldBeingEdited[1]
  /\ fieldBeingEdited[1].options.list # <<>>
  /\ formOptions.list # fieldBeingEdited[1].options.list
  /\ formType # fieldBeingEdited[1].type

\* C13: removeField(id) takes exactly the one field with that id out of the
\* list and keeps the others in order, and leaves the list alone for an id
\* that no field has; the edit pointer is cleared when a field was removed
\* that is the one being edited, and is as before in every other case.
C13_RemoveField ==
  [][\A id \in {""} \cup GenIds :
       (hookRemoveField(id) \/ \E i \in 1..Len(fields) : fields[i].id = id /\ removeField(i))
         => /\ id \in Ids(fields)
                 => \E i \in 1..Len(fields) :
                       fields[i].id = id /\ fields' = WithoutIndex(fields, i)
            /\ id \notin Ids(fields) => fields' = fields
            /\ fieldBeingEdited' =
                 IF id \in Ids(fields) /\ fieldBeingEdited # <<>> /\ fieldBeingEdited[1].id = id
                 THEN <<>> ELSE fieldBeingEdited]_vars

\* C14: in the snapshot of generateFormData every select, radio or checkbox
\* field has an options list that is present; the snapshot has the form name
\* and, position by position, the id, label, type and required flag of the
\* fields of the builder; and the step that takes the snapshot and sends it
\* leaves the field list of the builder as it was.
C14_Snapshot ==
  /\ [](kind \in {"dynamic", "hook"} =>
          LET d == generateFormData IN
            /\ d.formName = formName
            /\ Len(d.fields) = Len(fields)
            /\ \A k \in 1..Len(fields) :
                 /\ requiresOptions(d.fields[k].type) => d.fields[k].options.present
                 /\ d.fields[k].id = fields[k].id
                 /\ d.fields[k].label = fields[k].label
                 /\ d.fields[k].type = fields[k].type
                 /\ d.fields[k].required = fields[k].required)
  /\ [][handleFormSubmit => fields' = fields]_vars

\* The builder holds a select field without an options property next to a
\* text field; the snapshot gives the first an empty list and keeps the second.
C14_Witness ==
  /\ Len(fields) = 2
  /\ \E k \in 1..2 :
       /\ fields[k].type = "select" /\ ~fields[k].options.present
       /\ generateFormData.fields[k].options = EmptyOptions
       /\ fields[3 - k].type = "text"
       /\ generateFormData.fields[3 - k] = fields[3 - k]

\* C15: generateFormData is idempotent: the snapshot of a builder state is a
\* fixed point of the normalisation, generateFormData over the form name and
\* the fields of a snapshot gives that snapshot again.
C15_Idempotent ==
  kind \in {"dynamic", "hook"} =>
    LET d == generateFormData IN FormData(d.formName, d.fields) = d

\* A snapshot that differs from the field list it was taken of, and that a
\* second normalisation leaves alone.
C15_Witness ==
  /\ kind = "hook"
  /\ generateFormData.fields # fields
  /\ FormData(generateFormData.formName, generateFormData.fields) = generateFormData
  /\ formName # ""

\* C16: every field held by the builder, and every field of the snapshot of
\* generateFormData, has an options list exactly when its type is select,
\* radio or checkbox.
C16_OptionsIffChoiceType ==
  kind \in {"dynamic", "hook"} =>
    /\ \A k \in 1..Len(fields) :
         fields[k].options.present <=> requiresOptions(fields[k].type)
    /\ \A k \in 1..Len(generateFormData.fields) :
         generateFormData.fields[k].options.present
           <=> requiresOptions(generateFormData.fields[k].type)

\* C17: every option of the edit form has the value derived of its label
\* (lower case, no whitespace left in it), and a step that takes an option
\* out leaves the other options, label and value, as they were and in order.
C17_ValueDerivedOfLabel ==
  /\ [](\A k \in 1..Len(formOptions.list) :
          LET option == formOptions.list[k] IN
            /\ option.value = derive(option.label)
            /\ \A j \in 1..Len(option.value) : option.value[j] \notin {" ", "R"})
  /\ [][\A index \in 1..MaxOptions :
          removeOption(index)
            => /\ Len(formOptions'.list) = Len(formOptions.list) - 1
               /\ \A k \in 1..Len(formOptions'.list) :
                    formOptions'.list[k] = formOptions.list[IF k < index THEN k ELSE k + 1]]_vars

\* On a new select field two options were added and the second was given the
\* label "R  g", which made its value "r_g".
C17_Witness ==
  /\ fieldBeingEdited = <<>>
  /\ formType = "select"
  /\ Len(formOptions.list) = 2
  /\ formOptions.list[1] = [label |-> <<>>, value |-> <<>>]
  /\ formOptions.list[2] = [label |-> <<"R", " ", " ", "g">>, value |-> <<"r", "_", "g">>]

\* Candidate files: every allowed type and one that is not, at sizes around
\* the limit
CandidateFiles ==
  { [stem |-> <<"a">>, ext |-> ".x", type |-> t, size |-> s] :
      t \in AllowedTypes \cup {"text/plain"}, s \in {0, 5242880, 5242881, 6291456} }

\* C18: a file is accepted exactly when its type is image/jpeg, image/png or
\* application/pdf and its size is at most 5,242,880 bytes, by the client
\* schema and by the upload endpoint alike; an allowed type that is too large
\* gets the size message, a disallowed type within the limit the type message;
\* and every upload request that has passed the endpoint's checks carries such
\* a file, every one answered with one of the two messages does not.
C18_FileAccepted ==
  /\ \A file \in CandidateFiles :
       LET d == [name |-> 3, email |-> "a@b.c", file |-> <<file>>]
           typeOk == file.type \in {"image/jpeg", "image/png", "application/pdf"}
           sizeOk == file.size <= 5242880
       IN /\ (UploadRejection(d) = "") <=> (typeOk /\ sizeOk)
          /\ (fileUploadSchema(d) = {}) <=> (typeOk /\ sizeOk)
          /\ (typeOk /\ ~sizeOk)
               => /\ UploadRejection(d) = "File size must be less than 5MB"
                  /\ FileRefinements(file) = {"File size must be less than 5MB"}
          /\ (~typeOk /\ sizeOk)
               => /\ UploadRejection(d) = "File must be JPEG, PNG, or PDF"
                  /\ FileRefinements(file) = {"File must be JPEG, PNG, or PDF"}
  /\ \A i \in 1..Len(reqs) :
       LET r == reqs[i] IN
         (r.endpoint = "file" /\ r.pc # "received" /\ r.body.shape = "object"
            /\ r.body.data.file # <<>>)
           => LET file == r.body.data.file[1]
                  ok == file.type \in {"image/jpeg", "image/png", "application/pdf"}
                          /\ file.size <= 5242880
              IN /\ r.filename # <<>> => ok
                 /\ r.response.message \in {"File size must be less than 5MB",
                                            "File must be JPEG, PNG, or PDF"}
                      => (~ok /\ r.response.status = 400 /\ r.filename = <<>>)
                 /\ (ok /\ fileUploadSchema(r.body.data) = {}) => r.filename # <<>>

\* The endpoint has taken a file of exactly 5,242,880 bytes past its checks
\* and has answered one of 5,242,881 bytes with the size message.
C18_Witness ==
  \E i, j \in 1..Len(reqs) :
    /\ reqs[i].body = Object([name |-> 3, email |-> "a@b.c", file |-> <<PdfAtLimit>>])
    /\ reqs[i].filename # <<>>
    /\ reqs[j].body = Object([name |-> 3, email |-> "a@b.c", file |-> <<PdfOverLimit>>])
    /\ reqs[j].response = MessageResponse(400, "File size must be less than 5MB")

\* C19: any two upload requests that have been given a stored filename have
\* different ones, and no two rows of file_submissions have the same
\* file_path.
C19_FilenamesDistinct ==
  /\ \A i, j \in 1..Len(reqs) :
       (i # j /\ reqs[i].filename # <<>> /\ reqs[j].filename # <<>>)
         => reqs[i].filename # reqs[j].filename
  /\ \A i, j \in 1..Len(file_submissions) :
       i # j => file_submissions[i].file_path # file_submissions[j].file_path

\* The table an endpoint inserts into
TableOf(e) ==
  CASE e = "contact"   -> contact_submissions
    [] e = "multistep" -> multistep_submissions
    [] e = "dynamic"   -> dynamic_submissions
    [] OTHER           -> file_submissions

\* C20: each table has as many rows as requests of its endpoint were answered
\* with success (one row per success, none for any other request); a step
\* adds at most one row to one table and that step answers a request of the
\* table's endpoint with success; and no step changes or removes a stored row.
C20_OneRowPerSuccess ==
  /\ [](\A e \in Endpoints :
          Len(TableOf(e)) =
            Cardinality({i \in 1..Len(reqs) :
                           reqs[i].endpoint = e /\ reqs[i].response.status = 200}))
  /\ [][/\ \A e \in Endpoints :
             /\ Len(TableOf(e)') >= Len(TableOf(e))
             /\ SubSeq(TableOf(e)', 1, Len(TableOf(e))) = TableOf(e)
             /\ Len(TableOf(e)') > Len(TableOf(e))
                  => /\ Len(TableOf(e)') = Len(TableOf(e)) + 1
                     /\ \A o \in Endpoints \ {e} : TableOf(o)' = TableOf(o)
                     /\ \E i \in 1..Len(reqs) :
                          /\ reqs[i].endpoint = e
                          /\ reqs[i].response.status = 0
                          /\ reqs'[i].response.status = 200
        /\ \A i \in 1..Len(reqs) :
             (reqs[i].response.status = 0 /\ reqs'[i].response.status \in {400, 500})
               => tables' = tables]_vars

\* An upload was answered with success and left one row in file_submissions
\* and none elsewhere, and a contact request answered with 400 left none.
C20_Witness ==
  /\ Len(file_submissions) = 1
  /\ contact_submissions = <<>> /\ multistep_submissions = <<>> /\ dynamic_submissions = <<>>
  /\ \E i, j \in 1..Len(reqs) :
       /\ reqs[i].endpoint = "file" /\ reqs[i].response.status = 200
       /\ reqs[j].endpoint = "contact" /\ reqs[j].response.status = 400

\* C21: the step in which a form takes a 2xx answer off the transport sets the
\* success notification and clears the working form state (builder: no fields
\* and no form name; wizard: default values and step 0; contact form: default
\* values; upload form: default values and no selected file), and a success
\* notification that is shown is eventually not shown.
C21_SuccessClearsForm ==
  /\ [][(\E r \in BagToSet(net) : r.stage = "ok" /\ net' = net (-) One(r))
          => /\ submitSuccess'
             /\ kind = "dynamic" => (fields' = <<>> /\ formName' = "")
             /\ kind = "multistep" => (values' = WizardDefault /\ step' = 0)
             /\ kind = "contact" => values' = ContactDefault
             /\ kind = "file" => (values' = FileDefault /\ selectedFile' = <<>>)]_vars
  /\ (submitSuccess ~> ~submitSuccess)

\* The builder after a successful save: the notification is up, its timer is
\* pending and the form is empty.
C21_Witness ==
  /\ kind = "dynamic" /\ submitSuccess /\ timers > 0 /\ rows > 0
  /\ fields = <<>> /\ formName = ""
  /\ ~isSubmitting

\* Wizard values: every step filled in or blank, preferences an object or not
C22_WizardValues ==
  { [WizardEdit(WizardEdit(WizardEdit(WizardDefault, 0, a), 1, b), 2, c)
       EXCEPT !.preferences = d] : a, b, c, d \in BOOLEAN }

\* The errors the schema of step s alone finds
C22_StepErrors(s, vals) ==
  CASE s = 0 -> personalInfoSchema(vals)
    [] s = 1 -> addressInfoSchema(vals)
    [] OTHER -> additionalInfoSchema(vals)

\* C22: the result a Next click's validation of step N will settle with is
\* what the schema of step N says of the fields of step N: it is the same for
\* every wizard state that has the same values in those fields, whatever the
\* fields of the other steps hold; and when the validation settles the step
\* index goes up by one exactly if that result is valid.
C22_OutcomeOfOwnFieldsOnly ==
  [][\A p \in [step : 0..2, isValid : BOOLEAN] :
       /\ pendingNext' = pendingNext (+) One(p)
            => /\ p.step = step
               /\ \A v \in C22_WizardValues :
                    (\A f \in StepFields(step) : v[f] = values[f])
                      => p.isValid = (C22_StepErrors(step, v) = {})
       /\ (BagIn(p, pendingNext) /\ pendingNext' = pendingNext (-) One(p))
            => step' = IF p.isValid THEN step + 1 ELSE step]_vars

\* Step 0 was passed while the address fields are empty.
C22_Witness ==
  /\ kind = "multistep" /\ step = 1
  /\ values.firstName > 0 /\ values.addressLine1 = 0 /\ values.city = 0
  /\ pendingNext = EmptyBag /\ submits = 0

\* Contact payloads with every field at, inside and outside its bounds
C23_Payloads ==
  [name : {0, 1, 100, 101}, email : {"x", "a@b.c"},
   subject : {0, 1, 200, 201}, message : {9, 10, 1000, 1001}]

\* The fields of a contact payload that are out of their bounds
C23_OutOfBounds(p) ==
  {f \in {"name"} : ~(1 <= p.name /\ p.name <= 100)}
    \cup {f \in {"email"} : p.email # "a@b.c"}
    \cup {f \in {"subject"} : ~(1 <= p.subject /\ p.subject <= 200)}
    \cup {f \in {"message"} : ~(10 <= p.message /\ p.message <= 1000)}

\* C23: the contact schema reports exactly the fields that are out of their
\* bounds (name 1..100, email an address, subject 1..200, message 10..1000
\* characters), so it accepts a payload exactly when no field is; and the
\* contact endpoint answers a payload with a field out of bounds with 400 and
\* exactly those fields as error keys, and takes every other one to the INSERT.
C23_ContactBounds ==
  /\ \A p \in C23_Payloads : contactFormSchema(p) = C23_OutOfBounds(p)
  /\ \A i \in 1..Len(reqs) :
       LET r == reqs[i] IN
         (r.endpoint = "contact" /\ r.pc # "received" /\ r.body.shape = "object"
            /\ r.body.data.name # Absent /\ r.body.data.email \in {"x", "a@b.c"})
           => IF C23_OutOfBounds(r.body.data) # {}
              THEN r.response = ValidationResponse(C23_OutOfBounds(r.body.data))
              ELSE r.pc = "inserting" \/ r.response.status \in {200, 500}

\* The contact endpoint has answered a message of 1001 characters with an
\* error for the message field alone and has stored one of 1000 characters.
C23_Witness ==
  \E i, j \in 1..Len(reqs) :
    /\ reqs[i].endpoint = "contact" /\ reqs[i].body.shape = "object"
    /\ reqs[i].body.data.message = 1001
    /\ reqs[i].response = ValidationResponse({"message"})
    /\ reqs[j].endpoint = "contact" /\ reqs[j].body.shape = "object"
    /\ reqs[j].body.data.message = 1000
    /\ reqs[j].response.status = 200

\* A body is a FormDefinition as generateFormData builds it: a form name and
\* fields of exactly id, label, type, required and options
C24_Finalized(d) ==
  /\ DOMAIN d = {"formName", "fields"}
  /\ \A k \in 1..Len(d.fields) :
       /\ DOMAIN d.fields[k] = {"id", "label", "type", "required", "options"}
       /\ d.fields[k].type \in FieldTypes

\* The requests to the dynamic endpoint answered with success whose body is d
C24_Saved(d) ==
  {i \in 1..Len(reqs) : /\ reqs[i].endpoint = "dynamic" /\ reqs[i].response.status = 200
                        /\ reqs[i].body = Object(d)}

\* C24: for every FormDefinition the builder can send, dynamic_submissions
\* holds one row equal to it (form name, and the fields in order with their
\* id, label, type, required flag and options) per request that saved it with
\* success, and every row comes of the body of such a request with the keys
\* of the schema kept as sent.
C24_RowIsFormDefinition ==
  /\ \A d \in {b \in DynamicBodies : C24_Finalized(b)} :
       Cardinality({k \in 1..Len(dynamic_submissions) : dynamic_submissions[k] = d})
         = Cardinality(C24_Saved(d))
  /\ \A k \in 1..Len(dynamic_submissions) :
       \E i \in 1..Len(reqs) :
         LET d == reqs[i].body.data
             row == dynamic_submissions[k]
         IN /\ reqs[i].endpoint = "dynamic" /\ reqs[i].response.status = 200
            /\ row.formName = d.formName
            /\ Len(row.fields) = Len(d.fields)
            /\ \A j \in 1..Len(d.fields) :
                 \A key \in DOMAIN d.fields[j] \cap FieldKeys :
                   /\ key \in DOMAIN row.fields[j]
                   /\ row.fields[j][key] = d.fields[j][key]

\* The form "Survey" with a select field with an option and a required text
\* field was saved and is the one row of the table.
C24_Witness ==
  /\ Len(dynamic_submissions) = 1
  /\ dynamic_submissions[1].formName = "Survey"
  /\ Len(dynamic_submissions[1].fields) = 2
  /\ dynamic_submissions[1].fields[1] = ColorField
  /\ dynamic_submissions[1].fields[2].type = "text"
  /\ dynamic_submissions[1].fields[2].required
  /\ \E i \in 1..Len(reqs) : reqs[i].endpoint = "dynamic" /\ reqs[i].response.status = 200

\* C25: the options editor of the add/edit field form is shown exactly when
\* the type picked in the form is one that requires options (select, radio,
\* checkbox).
C25_EditorIffRequiresOptions ==
  kind = "dynamic" => (OptionsEditorShown <=> requiresOptions(formType))

\* C26: the step index of the wizard is 0, 1 or 2.
C26_StepInRange ==
  kind = "multistep" => step \in 0..2

\* C27: when a field is being edited, the field list of the builder holds a
\* field with the id of the field being edited.
C27_EditedFieldListed ==
  (kind \in {"dynamic", "hook"} /\ fieldBeingEdited # <<>>)
    => fieldBeingEdited[1].id \in Ids(fields)

\* C28: a form does not show the success notification and a submission error
\* at the same time.
C28_NotSuccessAndError ==
  ~(submitSuccess /\ submitError # "null")

\* C29: every row of file_submissions has a non-empty name, an email that is
\* an address, a file type among image/jpeg, image/png and application/pdf
\* and a file size of at most 5,242,880 bytes, as the client schema demands.
C29_RowsPassClientSchema ==
  \A k \in 1..Len(file_submissions) :
    LET row == file_submissions[k] IN
      /\ row.name > 0
      /\ IsEmail(row.email)
      /\ row.file_type \in {"image/jpeg", "image/png", "application/pdf"}
      /\ row.file_size <= 5242880

\* C30: the row built from a payload that passes the multi-step schema meets
\* the constraints of the columns of multistep_submissions: every request to
\* the multi-step endpoint whose body the schema accepts carries a row the
\* INSERT takes.
C30_ValidatedFitsColumns ==
  \A i \in 1..Len(reqs) :
    (reqs[i].endpoint = "multistep" /\ reqs[i].body.shape = "object"
       /\ multiStepFormSchema(reqs[i].body.data) = {})
      => ColumnsAccept("multistep", RowOf("multistep", reqs[i].body.data))

====
